---- MODULE Spec2Model ----
(***************************************************************************)
(* A state-machine model of the ASCII renderer of jamesqo/AsciiYou:       *)
(* ASCIIRenderer (engine/ASCIIRenderer.ts), the UIStore reaction that     *)
(* drives it, the compute shader's glyph selection, and the GPU queue     *)
(* that executes submitted work asynchronously.                           *)
(*                                                                         *)
(* JavaScript scheduling is modelled as it is defined: a task (an input   *)
(* event, a requestAnimationFrame callback, the settling of a GPU         *)
(* promise) runs only when the microtask queue is empty; the              *)
(* continuations of awaits on already-settled promises are microtasks,    *)
(* run in FIFO order.  The GPU consumes its queue independently.          *)
(*                                                                         *)
(* Beside the main specification (Spec, FairSpec) there are side          *)
(* specifications over variables of their own, which the main one holds   *)
(* still: ShaderSpec (the compute shader as a function), AtlasSpec        *)
(* (overlapping switchAtlas calls), ControlSpec and ControlFairSpec (the  *)
(* ControlClient's request queue) and SfuSpec (the media server's state). *)
(***************************************************************************)
EXTENDS Integers, Sequences, FiniteSets

\* ------------------------------------------------------------------ bounds
MaxDim == 2        \* largest grid width/height a setter may request
MaxEvents == 3     \* updateUniforms calls + submitted frames + dumps in one run
\* Error scopes left on the device's stack are counted up to MaxScopeDepth; a
\* frame that leaves one more when that many are there leaves the count as it is.
MaxScopeDepth == 2

\* --------------------------------------------------------- program constants
Scale == 10 * 10          \* fixed-point unit: f32 values are held in hundredths
RampMaxShader == 69       \* compute.wgsl: `lum * 69.0`, `clamp(.., 0.0, 69.0)`
RampLen == 40             \* RAMP.length, the length of appConfig's RAMP_DENSE
NL == -1                  \* the newline character of the dump's string
WorkgroupSize == 16       \* compute.wgsl: @workgroup_size(16,16); ceil(outW / 16)
NumCols == 16             \* the atlas's tile columns (numCols; `const cols = 16`)
RampBlocksLen == 5        \* the length of the blocks ramp

Dims == (-1) .. MaxDim                 \* values a caller may put into width/height
ContrastLevels == {Scale, Scale + Scale \div 10}   \* 1.0, 1.1 (the default)
EdgeBiasLevels == {0, (15 * Scale) \div 100}       \* 0.0, 0.15 (the default)
InvertLevels == {0, 1}
\* A camera image, reduced to what one cell's 3x3 neighbourhood yields: the
\* centre luminance and the Sobel edge magnitude (both in hundredths): a dark
\* cell at an edge, and a white cell.
Images == {[lum |-> 0, edge |-> (3 * Scale) \div 10], [lum |-> Scale, edge |-> 0]}

\* The atlas ids a caller may select (the `atlas` control).
AtlasTypes == {"dense", "blocks"}
\* The size of a decoded atlas bitmap, in abstract units: it is whatever the
\* fetched asset holds.  The dense asset, loaded by initialize, has InitBitmapSize.
InitBitmapSize == 2
BitmapSizes == (InitBitmapSize - 1) .. (InitBitmapSize + 1)

Max(a, b) == IF a > b THEN a ELSE b
Min(a, b) == IF a < b THEN a ELSE b
Clamp(x, lo, hi) == Min(Max(x, lo), hi)

VARIABLES
  \* UIStore (state/UIStore.ts)
  width, height, storeContrast, storeEdgeBias, storeInvert,
  nSkipped,            \* runs of the reaction that found no renderer
  \* ASCIIRenderer fields
  outW, outH, contrast, edgeBias, invert,
  uniforms,            \* contents of the uniform buffer (Parameter Block)
  bufs,                \* every index buffer ever created, by id
  indexBuffer,         \* this.indexBuffer (an id)
  computeBindGroup, renderBindGroup,
  bgCount,             \* bind groups ever created
  cols, rows,          \* this.cols, this.rows: the atlas geometry
  atlasTex,            \* this.atlasTex: its size, and the bitmap last copied into it
  \* JavaScript scheduling
  nCalls,              \* updateUniforms calls made so far
  mq,                  \* microtask queue: suspended updateUniforms calls
  inTask,              \* no microtask has run since the last call was started
  \* frame loop
  running, rafPending, framePc, scopeErr, lastFrame, frameNo,
  scopeDepth,          \* error scopes pushed on the device and not popped
  \* GPU
  gpuQueue, display,
  \* diagnostic dump
  dumpPc, dumpStaging, dumpOut,
  dumpDims,            \* outW, outH as the last dump read them: at its call, at its
                       \* return; and the atlas in the texture at its call
  nDumps,              \* dumpASCIIMask calls made so far
  liveStaging,         \* staging buffers created by dumps and not destroyed
  \* the host (components/ASCIIFeed.tsx) and the device
  hostPc,              \* where the effect's async function stands
  hiddenVideo,         \* the <video> mountHiddenVideo appends: loading, mounted, disposed
  initOutcome,         \* how ASCIIRenderer.initialize ended ("pending" until then)
  cancelled,           \* the effect's `cancelled` flag, set by its cleanup
  deviceLost,          \* the GPUDevice's `lost` promise has resolved
  videoResized,        \* the video's native size is no longer the camera texture's
  \* one run of the compute shader on its own (see ShaderSpec)
  shaderIn, shaderOut,
  \* overlapping switchAtlas calls (see AtlasSpec)
  atlasFetches,        \* the loadAtlasBitmap fetches still in flight, by call number
  atlasRequested,      \* the atlas the last switchAtlas call asked for, and whether
                       \* a call was ever made while another was still fetching
  \* ControlClient (service/ControlClient.ts, see ControlSpec)
  ws,                  \* this.ws: "none" (undefined), "connecting" or "open"
  ops,                 \* every operation given to enqueue, in order, with its outcome
  pending,             \* this.pending: the expectation installed, or NoPending
  timers,              \* the timeouts armed and neither cleared nor fired, oldest first
  sent,                \* the operations whose payload was sent on the socket, in order
  \* the SFU process (backend/media/server.ts, see SfuSpec)
  worker,              \* `worker`: the mediasoup worker in use (0: null)
  workers,             \* mediasoup workers created so far
  huddles,             \* `huddles`: for each huddle id its Huddle object (0: no entry)
  huddleObjs,          \* every Huddle object created, with its router and participants
  sfuIds,              \* transports, producers and consumers created so far
  sfuReqs              \* the HTTP requests received: where each handler stands, its answer

vars == <<width, height, storeContrast, storeEdgeBias, storeInvert, nSkipped,
          outW, outH, contrast, edgeBias, invert, uniforms, bufs, indexBuffer,
          computeBindGroup, renderBindGroup, bgCount, cols, rows, atlasTex,
          nCalls, mq, inTask,
          running, rafPending, framePc, scopeErr, lastFrame, frameNo, scopeDepth,
          gpuQueue, display, dumpPc, dumpStaging, dumpDims, dumpOut, nDumps, liveStaging,
          hostPc, hiddenVideo, initOutcome, cancelled, deviceLost, videoResized,
          shaderIn, shaderOut, atlasFetches, atlasRequested,
          ws, ops, pending, timers, sent,
          worker, workers, huddles, huddleObjs, sfuIds, sfuReqs>>

storeVars == <<width, height, storeContrast, storeEdgeBias, storeInvert, nSkipped>>
settingVars == <<outW, outH, contrast, edgeBias, invert>>
resourceVars == <<uniforms, bufs, indexBuffer, computeBindGroup, renderBindGroup, bgCount,
                  nCalls>>
frameVars == <<running, rafPending, framePc, scopeErr, lastFrame, frameNo, scopeDepth>>
dumpVars == <<dumpPc, dumpStaging, dumpDims, dumpOut, nDumps, liveStaging>>
atlasVars == <<cols, rows, atlasTex>>
hostVars == <<hostPc, hiddenVideo, initOutcome, cancelled, deviceLost, videoResized>>
shaderVars == <<shaderIn, shaderOut>>
fetchVars == <<atlasFetches, atlasRequested>>
\* The renderer, its host and the GPU: everything the main specification moves.
rendererVars == <<storeVars, settingVars, resourceVars, mq, inTask, frameVars, gpuQueue,
                  display, dumpVars, atlasVars, hostVars>>
\* The variables of the side specifications, which the main one holds still.
controlVars == <<ws, ops, pending, timers, sent>>
sfuVars == <<worker, workers, huddles, huddleObjs, sfuIds, sfuReqs>>
sideVars == <<shaderVars, fetchVars, controlVars, sfuVars>>

\* The store holds values the reaction has not copied into the renderer (a
\* setter ran while the store had no renderer).
StoreAhead ==
  <<width, height, storeContrast, storeEdgeBias, storeInvert>>
    # <<outW, outH, contrast, edgeBias, invert>>

\* The counters only grow; a run is cut off after MaxEvents counted events
\* (a skipped reaction counts twice).
MoreEvents ==
  nCalls + frameNo + nDumps + (IF cancelled THEN 1 ELSE 0) + (IF deviceLost THEN 1 ELSE 0)
    + (IF videoResized THEN 1 ELSE 0) + 2 * nSkipped < MaxEvents

\* initialize has returned the renderer and the host has passed it on
\* (window.renderer, onReady -> UIStore.setRenderer).
RendererPublished == hostPc \in {"awaitRun", "done"}

\* The value of shaderIn and shaderOut while no shader run is looked at.
NoShaderRun == [kind |-> "none"]

\* ------------------------------------------------------------ GPU resources
ZeroCell == [v |-> 0, f |-> 0]       \* a cell's index value and the frame that wrote it

\* device.createBuffer({size}): zero-initialised storage of size bytes.
NewBuffer(size) ==
  [size |-> size, destroyed |-> FALSE, destroys |-> 0,
   data |-> [c \in 1 .. (size \div 4) |-> ZeroCell]]

\* createIndexBuffer: size: numCells * 4 with numCells = outW * outH.
IndexBufferSizeStale(w, h) == (outW * outH) * 4
IndexBufferSize(w, h) == (w * h) * 4

\* createBuffer's size is an [EnforceRange] unsigned long long: a negative
\* size throws a TypeError before anything is allocated.
CreateBufferThrows(size) == size < 0

\* device.createBindGroup with a buffer binding: the bound range must have a
\* non-zero size, else the bind group is invalid (a validation error).
MakeBindGroup(b, bs) == [buf |-> b, valid |-> bs[b].size > 0]

\* createComputeBindGroup / createRenderBindGroup: both bind
\* `this.indexBuffer` as it is at the moment they are called.
CreateComputeBindGroupFirst(idx, bs) == MakeBindGroup(1, bs)
CreateComputeBindGroup(idx, bs) == MakeBindGroup(idx, bs)

CreateRenderBindGroupStale(idx, bs) == renderBindGroup
CreateRenderBindGroup(idx, bs) == MakeBindGroup(idx, bs)

\* The Float32Array written by createUniforms / updateUniforms.
UniformData(w, h, eb, c, inv, cs, rs) ==
  [outW |-> w, outH |-> h, edgeBias |-> eb, contrast |-> c, invert |-> inv,
   cols |-> cs, rows |-> rs, rampLen |-> RampLen]

\* ------------------------------------------------------------------ the atlas
\* RAMP_DENSE.length, RAMP_BLOCKS.length.
RampLength(atlasType) == IF atlasType = "blocks" THEN RampBlocksLen ELSE RampLen

\* Math.ceil(a / b) for positive integers.
FloorDiv(a, b) == a \div b
CeilDiv(a, b) == (a + b - 1) \div b

\* loadAtlasBitmap(atlasType): the geometry it returns with the bitmap.
\* (WebGPUApp distinguishes the two atlases; ASCIIRenderer's version loads
\* the one atlas of appConfig for every id, which is the "dense" case.)
LoadAtlasBitmap(atlasType) ==
  [cols |-> NumCols, rows |-> CeilDiv(RampLength(atlasType), NumCols)]

\* createAtlasTexture: a texture of the bitmap's size, holding the bitmap.
CreateAtlasTexture(atlasType, bmp) == [size |-> bmp, atlas |-> atlasType, bitmapSize |-> bmp]

\* copyExternalImageToTexture(bitmap, tex, [tex.width, tex.height]) throws an
\* OperationError when the copy size exceeds the source bitmap.
CopyThrows(tex, bmp) == tex.size > bmp

\* ------------------------------------------------------------ compute shader
\* compute.wgsl main, lines 41-62, for one cell whose neighbourhood has centre
\* luminance lum and edge magnitude edge.  Values are in hundredths, products
\* in units of 1/Scale^2; u32(f32) truncates toward zero.
ContrastAdjusted(lum, U) ==
  IF U.contrast # Scale
  THEN Clamp((lum - Scale \div 2) * U.contrast + (Scale \div 2) * Scale, 0, Scale * Scale)
  ELSE lum * Scale

AdjustedLumNoInvert(lum, U) == ContrastAdjusted(lum, U)
AdjustedLum(lum, U) ==
  IF U.invert * 2 > 1 THEN Scale * Scale - ContrastAdjusted(lum, U)
  ELSE ContrastAdjusted(lum, U)

WorkgroupCountFloor(n) == n \div WorkgroupSize

GlyphIndex(lum, edge, U) ==
  LET one == Scale * Scale
      l2 == AdjustedLum(lum, U)
      base == l2 * RampMaxShader
      bias == edge * U.edgeBias * RampMaxShader
  IN Clamp(base + bias, 0, RampMaxShader * one) \div one

\* u32(U.outW): the conversion of a negative f32 saturates to 0.
U32(x) == Max(x, 0)

\* The cells of the grid the shader sees: gid.x < u32(U.outW),
\* gid.y < u32(U.outH), at gid.y * u32(U.outW) + gid.x (numbered from 1 here).
GridCells(U) == U32(U.outW) * U32(U.outH)

\* Cell c (numbered from 1) is that of an invocation of a dispatch of
\* disp[1] x disp[2] workgroups of 16 x 16.
InDispatch(c, U, disp) ==
  /\ c <= GridCells(U)
  /\ (c - 1) % U32(U.outW) < WorkgroupSize * disp[1]
  /\ (c - 1) \div U32(U.outW) < WorkgroupSize * disp[2]

\* One invocation of main with global_invocation_id (gx, gy): the bounds
\* check returns before any texture sample and before the write; else the
\* 3x3 neighbourhood is sampled and idx[gy * u32(U.outW) + gx] is written.
Invocation(gx, gy, U) ==
  IF gx >= U32(U.outW) \/ gy >= U32(U.outH)
  THEN [samples |-> 0, writes |-> {}]
  ELSE [samples |-> 3 * 3, writes |-> {gy * U32(U.outW) + gx}]

\* dispatchWorkgroups(disp[1], disp[2]) of 16 x 16 invocations each: how often
\* each position of idx is written, and the samples taken by the invocations
\* that write nothing.
Dispatch(U, disp) ==
  LET G == (0 .. WorkgroupSize * disp[1] - 1) \X (0 .. WorkgroupSize * disp[2] - 1)
      written == UNION {Invocation(g[1], g[2], U).writes : g \in G}
  IN [kind |-> "grid",
      count |-> [pos \in written |->
                   Cardinality({g \in G : pos \in Invocation(g[1], g[2], U).writes})],
      idleSamples |-> {Invocation(g[1], g[2], U).samples :
                         g \in {k \in G : Invocation(k[1], k[2], U).writes = {}}}]

\* ------------------------------------------------- UIStore -> updateUniforms
\* resizeIndexBuffer: `const old = this.indexBuffer; ...; old.destroy()`.
BufferToDestroyCurrent(call) == indexBuffer
BufferToDestroy(call) == call.old

\* The UIStore reaction copies the five store fields into the renderer and
\* calls updateUniforms() (see Reaction, below).
\* updateUniforms() up to its first suspension, for the fields as the caller
\* has just set them: writeBuffer(uniforms), then resizeIndexBuffer up to the
\* await of createComputeBindGroup.  When createBuffer throws, the call's
\* promise is rejected and the caller's handler (`.catch(console.error)`) is
\* queued as a microtask.
UpdateUniforms(w, h, c, e, i, cs, rs) ==
  /\ nCalls' = nCalls + 1
  /\ uniforms' = UniformData(w, h, e, c, i, cs, rs)
  /\ LET size == IndexBufferSize(w, h)
         new == Len(bufs) + 1
     IN IF CreateBufferThrows(size)
        THEN /\ mq' = Append(mq, [pc |-> "rejected"])
             /\ inTask' = TRUE
             /\ UNCHANGED <<bufs, indexBuffer, bgCount>>
        ELSE /\ bufs' = Append(bufs, NewBuffer(size))
             /\ indexBuffer' = new
             /\ bgCount' = bgCount + 1
             /\ mq' = Append(mq, [pc |-> "setCompute", old |-> indexBuffer,
                                  cbg |-> CreateComputeBindGroup(new, bufs'),
                                  rbg |-> renderBindGroup])
             /\ inTask' = TRUE
  /\ UNCHANGED <<computeBindGroup, renderBindGroup>>

\* A setter changes a store field and the reaction runs: without a renderer
\* (`if (!r) return`) only the store has changed; with one, all five fields
\* are copied and updateUniforms() is called.
Reaction(w, h, c, e, i) ==
  /\ mq = <<>> \/ inTask
  /\ MoreEvents
  /\ <<w, h, c, e, i>> # <<width, height, storeContrast, storeEdgeBias, storeInvert>>
  /\ width' = w /\ height' = h /\ storeContrast' = c
  /\ storeEdgeBias' = e /\ storeInvert' = i
  /\ IF RendererPublished
     THEN /\ outW' = w /\ outH' = h /\ contrast' = c /\ edgeBias' = e /\ invert' = i
          /\ UpdateUniforms(w, h, c, e, i, cols, rows)
          /\ UNCHANGED nSkipped
     ELSE /\ hostPc # "ready"
          /\ nSkipped' = nSkipped + 1
          /\ UNCHANGED <<settingVars, resourceVars, mq, inTask>>
  /\ UNCHANGED <<frameVars, gpuQueue, display, dumpVars, atlasVars, hostVars>>
  /\ UNCHANGED sideVars

\* switchAtlas(atlasType) from the point where `await loadAtlasBitmap` has
\* resumed with a bitmap of size bmp (until then the call has changed nothing;
\* a failed fetch rejects it there): copy the bitmap into this.atlasTex, set
\* cols and rows, call updateUniforms().
\* switchAtlas from the point where `await this.loadAtlasBitmap(atlasType)` has
\* resumed with a bitmap of size bmp: the copy into the existing texture, the
\* new geometry, and the call of updateUniforms.
SwitchAtlasResumed(atlasType, bmp) ==
  IF CopyThrows(atlasTex, bmp)
  THEN UNCHANGED <<storeVars, settingVars, resourceVars, mq, inTask, frameVars, gpuQueue,
                   display, dumpVars, atlasVars, hostVars>>
  ELSE /\ atlasTex' = [atlasTex EXCEPT !.atlas = atlasType, !.bitmapSize = bmp]
       /\ cols' = LoadAtlasBitmap(atlasType).cols
       /\ rows' = LoadAtlasBitmap(atlasType).rows
       /\ UpdateUniforms(outW, outH, contrast, edgeBias, invert, cols', rows')
       /\ UNCHANGED <<storeVars, settingVars>>
       /\ UNCHANGED <<frameVars, gpuQueue, display, dumpVars, hostVars>>

switchAtlas ==
  \E atlasType \in AtlasTypes, bmp \in BitmapSizes :
    /\ atlasType = "dense" => bmp = InitBitmapSize
    /\ RendererPublished
    /\ mq = <<>>
    /\ MoreEvents
    /\ SwitchAtlasResumed(atlasType, bmp)
    /\ UNCHANGED sideVars

setWidth == \E v \in Dims : Reaction(v, height, storeContrast, storeEdgeBias, storeInvert)
setHeight == \E v \in Dims : Reaction(width, v, storeContrast, storeEdgeBias, storeInvert)
setContrast == \E v \in ContrastLevels : Reaction(width, height, v, storeEdgeBias, storeInvert)
setEdgeBias == \E v \in EdgeBiasLevels : Reaction(width, height, storeContrast, v, storeInvert)
setInvert == \E v \in InvertLevels : Reaction(width, height, storeContrast, storeEdgeBias, v)

\* The microtasks of one updateUniforms call, in order.
\* recreateBindGroups: `this.computeBindGroup = await createComputeBindGroup()`
\* resumes, then createRenderBindGroup() runs up to the next await.
ResumeSetCompute ==
  /\ mq # <<>> /\ Head(mq).pc = "setCompute"
  /\ computeBindGroup' = Head(mq).cbg
  /\ bgCount' = bgCount + 1
  /\ mq' = Append(Tail(mq), [Head(mq) EXCEPT !.pc = "setRender",
                                             !.rbg = CreateRenderBindGroup(indexBuffer, bufs)])
  /\ inTask' = FALSE
  /\ UNCHANGED <<storeVars, settingVars, uniforms, bufs, indexBuffer, renderBindGroup, nCalls>>
  /\ UNCHANGED <<frameVars, gpuQueue, display, dumpVars, atlasVars, hostVars>>
  /\ UNCHANGED sideVars

\* `this.renderBindGroup = await createRenderBindGroup()` resumes and
\* recreateBindGroups returns.
ResumeSetRender ==
  /\ mq # <<>> /\ Head(mq).pc = "setRender"
  /\ renderBindGroup' = Head(mq).rbg
  /\ mq' = Append(Tail(mq), [Head(mq) EXCEPT !.pc = "destroy"])
  /\ inTask' = FALSE
  /\ UNCHANGED <<storeVars, settingVars, uniforms, bufs, indexBuffer, computeBindGroup, bgCount,
                 nCalls>>
  /\ UNCHANGED <<frameVars, gpuQueue, display, dumpVars, atlasVars, hostVars>>
  /\ UNCHANGED sideVars

\* resizeIndexBuffer resumes after `await this.recreateBindGroups()`:
\* old.destroy(), and it returns.
ResumeDestroy ==
  /\ mq # <<>> /\ Head(mq).pc = "destroy"
  /\ bufs' = [bufs EXCEPT ![BufferToDestroy(Head(mq))].destroyed = TRUE,
                          ![BufferToDestroy(Head(mq))].destroys = @ + 1]
  /\ mq' = Append(Tail(mq), [Head(mq) EXCEPT !.pc = "return"])
  /\ inTask' = FALSE
  /\ UNCHANGED <<storeVars, settingVars, uniforms, indexBuffer, computeBindGroup,
                 renderBindGroup, bgCount, nCalls>>
  /\ UNCHANGED <<frameVars, gpuQueue, display, dumpVars, atlasVars, hostVars>>
  /\ UNCHANGED sideVars

\* updateUniforms resumes after `await this.resizeIndexBuffer()` and returns.
ResumeReturn ==
  /\ mq # <<>> /\ Head(mq).pc = "return"
  /\ mq' = Tail(mq)
  /\ inTask' = FALSE
  /\ UNCHANGED <<storeVars, settingVars, resourceVars>>
  /\ UNCHANGED <<frameVars, gpuQueue, display, dumpVars, atlasVars, hostVars>>
  /\ UNCHANGED sideVars

\* The rejection handler of a failed updateUniforms call runs: it logs.
ResumeRejected ==
  /\ mq # <<>> /\ Head(mq).pc = "rejected"
  /\ mq' = Tail(mq)
  /\ inTask' = FALSE
  /\ UNCHANGED <<storeVars, settingVars, resourceVars>>
  /\ UNCHANGED <<frameVars, gpuQueue, display, dumpVars, atlasVars, hostVars>>
  /\ UNCHANGED sideVars

\* ------------------------------------------------------------- frame loop
\* run(): `finally { requestAnimationFrame(frame) }` -- the number of callbacks
\* one iteration schedules when it ends, failed or not.
RafAfterFrameOnSuccess(failed) == IF failed THEN 0 ELSE 1
RafAfterFrame(failed) == 1

\* Math.ceil(n / 16), the workgroup count doComputePass passes for a dimension.
WorkgroupCount(n) == IF n > 0 THEN (n + WorkgroupSize - 1) \div WorkgroupSize
                     ELSE 0 - ((0 - n) \div WorkgroupSize)

\* doComputePass: dispatchWorkgroups(ceil(this.outW / 16), ceil(this.outH / 16)).
DispatchSizeFor(w, h) == <<WorkgroupCount(w), WorkgroupCount(h)>>
DispatchSizeFromStore == DispatchSizeFor(width, height)
DispatchSize == DispatchSizeFor(outW, outH)

\* The passes of one frame's command encoder, in encoding order:
\* doComputePass(encoder), then doRenderPass(encoder, view).
FramePassesRenderFirst == <<"render", "compute">>
FramePasses == <<"compute", "render">>

\* What the callback has encoded and submitted when its size check throws:
\* the check is the first statement of the callback.
SubmittedBeforeSizeCheckAll == FramePasses
SubmittedBeforeSizeCheck == <<>>

\* queue.submit validates the command buffer: an invalid bind group or a
\* destroyed buffer makes the submission a validation error, and nothing of it
\* is executed.  (On a lost device nothing is validated, reported or executed.)
SubmitValid ==
  /\ computeBindGroup.valid /\ renderBindGroup.valid
  /\ ~bufs[computeBindGroup.buf].destroyed
  /\ ~bufs[renderBindGroup.buf].destroyed

\* The frame callback's check: video.videoWidth !== camTex.width ||
\* video.videoHeight !== camTex.height.  The camera texture is created once,
\* by initialize, with the size the video had then.
VideoSizeMismatch == videoResized

\* run(): the first requestAnimationFrame(frame).
\* It is called by the host (`if (!cancelled) await renderer.run()`); having
\* no await it returns a resolved promise, so the host's continuation is a
\* microtask.
run ==
  /\ hostPc = "ready" /\ ~cancelled
  /\ ~running /\ mq = <<>>
  /\ running' = TRUE
  /\ rafPending' = rafPending + 1
  /\ hostPc' = "awaitRun"
  /\ mq' = Append(mq, [pc |-> "hostResume"])
  /\ inTask' = TRUE
  /\ UNCHANGED <<framePc, scopeErr, lastFrame, frameNo, scopeDepth>>
  /\ UNCHANGED <<storeVars, settingVars, resourceVars>>
  /\ UNCHANGED <<gpuQueue, display, dumpVars, atlasVars>>
  /\ UNCHANGED <<hiddenVideo, initOutcome, cancelled, deviceLost, videoResized>>
  /\ UNCHANGED sideVars

\* One requestAnimationFrame callback that finds the video's native size
\* different from the camera texture's: withValidation pushes its error
\* scope, the size check throws out of `await op()` and withValidation rejects
\* before its popErrorScope; the catch logs, the finally schedules the next
\* iteration.
frameThrows ==
  /\ running /\ rafPending > 0 /\ framePc = "idle" /\ mq = <<>>
  /\ VideoSizeMismatch
  /\ lastFrame' = "threw"
  /\ scopeDepth' = Min(scopeDepth + 1, MaxScopeDepth)
  /\ rafPending' = rafPending - 1 + RafAfterFrame(TRUE)
  /\ gpuQueue' = IF SubmittedBeforeSizeCheck = <<>> THEN gpuQueue
                 ELSE Append(gpuQueue,
                        [kind |-> "frame", frame |-> frameNo + 1,
                         passes |-> SubmittedBeforeSizeCheck, disp |-> DispatchSize,
                         cbuf |-> computeBindGroup.buf, rbuf |-> renderBindGroup.buf,
                         U |-> uniforms, img |-> [lum |-> 0, edge |-> 0], n |-> 0])
  /\ UNCHANGED <<running, framePc, scopeErr, frameNo>>
  /\ UNCHANGED <<storeVars, settingVars, resourceVars, mq, inTask>>
  /\ UNCHANGED <<display, dumpVars, atlasVars, hostVars>>
  /\ UNCHANGED sideVars

\* One requestAnimationFrame callback that finds the sizes equal, up to
\* `await this.device.popErrorScope()`: pushErrorScope, copy the video frame,
\* encode both passes, submit.
frameSubmit ==
  /\ running /\ rafPending > 0 /\ framePc = "idle" /\ mq = <<>>
  /\ ~VideoSizeMismatch
  /\ rafPending' = rafPending - 1
  /\ framePc' = "awaitPop"
  /\ scopeDepth' = scopeDepth + 1
  /\ scopeErr' = (~SubmitValid /\ ~deviceLost)
  /\ IF SubmitValid /\ ~deviceLost
     THEN /\ MoreEvents
          /\ frameNo' = frameNo + 1
          /\ \E img \in Images :
               gpuQueue' = Append(gpuQueue,
                 [kind |-> "frame", frame |-> frameNo + 1, passes |-> FramePasses,
                  disp |-> DispatchSize,
                  cbuf |-> computeBindGroup.buf, rbuf |-> renderBindGroup.buf,
                  U |-> uniforms, img |-> img, n |-> 0])
     ELSE UNCHANGED <<frameNo, gpuQueue>>
  /\ UNCHANGED <<running, lastFrame>>
  /\ UNCHANGED <<storeVars, settingVars, resourceVars, mq, inTask>>
  /\ UNCHANGED <<display, dumpVars, atlasVars, hostVars>>
  /\ UNCHANGED sideVars

\* popErrorScope settles: withValidation throws the captured error (the catch
\* logs it) or returns; the finally schedules the next iteration.
framePop ==
  /\ framePc = "awaitPop" /\ mq = <<>>
  /\ lastFrame' = IF scopeErr THEN "validation" ELSE "ok"
  /\ rafPending' = rafPending + RafAfterFrame(scopeErr)
  /\ framePc' = "idle"
  /\ scopeDepth' = scopeDepth - 1
  /\ scopeErr' = FALSE
  /\ UNCHANGED <<running, frameNo>>
  /\ UNCHANGED <<storeVars, settingVars, resourceVars, mq, inTask>>
  /\ UNCHANGED <<gpuQueue, display, dumpVars, atlasVars, hostVars>>
  /\ UNCHANGED sideVars

\* ------------------------------------------------- the host and the device
\* The ways ASCIIRenderer.initialize can end: it returns the renderer, or one
\* of its steps fails (requestAdapter gives null, the atlas fetch is not ok,
\* a shader fetch is not ok, getCompilationInfo reports an error, a pipeline's
\* creation is a validation error).
InitOutcomes == {"ok", "noAdapter", "atlasFetch", "shaderFetch", "compileError", "pipelineError"}

\* Each failing step throws inside the async initialize: its promise rejects.
InitializeRejectsUnlessLogged(outcome) == outcome \notin {"ok", "compileError"}
InitializeRejects(outcome) == outcome # "ok"

\* `await mountHiddenVideo(stream)` settles in the effect: the video has its
\* data and plays, `disposer = dispose` is assigned and initialize is called.
\* The effect does not look at `cancelled` here.
mountHiddenVideo ==
  /\ hostPc = "mounting"
  /\ hostPc' = "initializing"
  /\ hiddenVideo' = "mounted"
  /\ UNCHANGED <<initOutcome, cancelled, deviceLost, videoResized>>
  /\ UNCHANGED <<storeVars, settingVars, resourceVars, mq, inTask>>
  /\ UNCHANGED <<frameVars, gpuQueue, display, dumpVars, atlasVars>>
  /\ UNCHANGED sideVars

\* `await ASCIIRenderer.initialize(canvas, video)` settles in the effect: on a
\* rejection the catch reports it; else the renderer is published and run()
\* is about to be called, or skipped when the cleanup ran meanwhile.
initialize ==
  \E outcome \in InitOutcomes :
    /\ hostPc = "initializing"
    /\ initOutcome' = outcome
    /\ hostPc' = IF InitializeRejects(outcome) THEN "failed"
                 ELSE IF cancelled THEN "done" ELSE "ready"
    /\ UNCHANGED <<hiddenVideo, cancelled, deviceLost, videoResized>>
    /\ UNCHANGED <<storeVars, settingVars, resourceVars, mq, inTask>>
    /\ UNCHANGED <<frameVars, gpuQueue, display, dumpVars, atlasVars>>
    /\ UNCHANGED sideVars

\* The host's continuation after `await renderer.run()`: the effect's async
\* function ends.
hostResume ==
  /\ mq # <<>> /\ Head(mq).pc = "hostResume"
  /\ hostPc' = "done"
  /\ mq' = Tail(mq)
  /\ inTask' = FALSE
  /\ UNCHANGED <<hiddenVideo, initOutcome, cancelled, deviceLost, videoResized>>
  /\ UNCHANGED <<storeVars, settingVars, resourceVars>>
  /\ UNCHANGED <<frameVars, gpuQueue, display, dumpVars, atlasVars>>
  /\ UNCHANGED sideVars

\* The effect's cleanup (unmount, or a changed dependency): `cancelled = true`
\* and `disposer?.()`, which disposes of the hidden video if mountHiddenVideo
\* has returned it and does nothing while `disposer` is still null.  Nothing of
\* the renderer is touched.
cleanup ==
  /\ ~cancelled /\ hostPc # "ready" /\ mq = <<>>
  /\ MoreEvents
  /\ cancelled' = TRUE
  /\ hiddenVideo' = IF hostPc = "mounting" THEN hiddenVideo ELSE "disposed"
  /\ UNCHANGED <<hostPc, initOutcome, deviceLost, videoResized>>
  /\ UNCHANGED <<storeVars, settingVars, resourceVars, mq, inTask>>
  /\ UNCHANGED <<frameVars, gpuQueue, display, dumpVars, atlasVars>>
  /\ UNCHANGED sideVars

\* The device is lost: device.lost resolves and the handler installed by
\* setupErrorHandlers logs it.  The queue's unfinished work is dropped and a
\* pending mapAsync rejects.
deviceLoss ==
  /\ ~deviceLost /\ hostPc \notin {"mounting", "initializing", "ready"} /\ mq = <<>>
  /\ MoreEvents
  /\ deviceLost' = TRUE
  /\ gpuQueue' = <<>>
  /\ dumpPc' = IF dumpPc = "awaitMap" THEN "rejected" ELSE dumpPc
  /\ UNCHANGED <<dumpStaging, dumpDims, dumpOut, nDumps, liveStaging>>
  /\ UNCHANGED <<hostPc, hiddenVideo, initOutcome, cancelled, videoResized>>
  /\ UNCHANGED <<storeVars, settingVars, resourceVars, mq, inTask>>
  /\ UNCHANGED <<frameVars, display, atlasVars>>
  /\ UNCHANGED sideVars

\* The video source's native size changes (the stream renegotiates, the
\* camera is rotated): video.videoWidth/videoHeight differ from then on.  The
\* renderer has no handler for it; this.camTex stays as initialize created it.
videoResize ==
  /\ ~videoResized /\ hostPc \notin {"mounting", "initializing", "ready"} /\ mq = <<>>
  /\ MoreEvents
  /\ videoResized' = TRUE
  /\ UNCHANGED <<hostPc, hiddenVideo, initOutcome, cancelled, deviceLost>>
  /\ UNCHANGED <<storeVars, settingVars, resourceVars, mq, inTask>>
  /\ UNCHANGED <<frameVars, gpuQueue, display, dumpVars, atlasVars>>
  /\ UNCHANGED sideVars

\* ------------------------------------------------------------------- the GPU
\* One pass of a frame, applied to the buffers' contents and the surface.
\* compute: every cell of the grid gets its glyph index (compute.wgsl);
\* render: the surface shows the grid's cells as read from the index buffer.
ApplyPass(s, pass, e) ==
  IF pass = "compute"
  THEN [s EXCEPT !.bs[e.cbuf].data =
          [c \in DOMAIN @ |->
             IF InDispatch(c, e.U, e.disp)
             THEN [v |-> GlyphIndex(e.img.lum, e.img.edge, e.U), f |-> e.frame]
             ELSE @[c]]]
  ELSE [s EXCEPT !.disp =
          [frame |-> e.frame,
           fresh |-> \A c \in DOMAIN s.bs[e.rbuf].data :
                        c <= GridCells(e.U) => s.bs[e.rbuf].data[c].f = e.frame]]

\* The queue executes the oldest submission.  A buffer destroyed after the
\* submission stays usable by it (WebGPU frees the memory afterwards).
gpuExec ==
  /\ gpuQueue # <<>>
  /\ LET e == Head(gpuQueue) IN
       IF e.kind = "frame"
       THEN LET s1 == ApplyPass([bs |-> bufs, disp |-> display], e.passes[1], e)
                s2 == ApplyPass(s1, e.passes[2], e)
            IN /\ bufs' = s2.bs
               /\ display' = s2.disp
               /\ UNCHANGED dumpStaging
       ELSE /\ dumpStaging' = [c \in 1 .. e.n |-> bufs[e.cbuf].data[c].v]
            /\ UNCHANGED <<bufs, display>>
  /\ gpuQueue' = Tail(gpuQueue)
  /\ UNCHANGED <<storeVars, settingVars, uniforms, indexBuffer, computeBindGroup,
                 renderBindGroup, bgCount, nCalls, mq, inTask>>
  /\ UNCHANGED <<frameVars, dumpPc, dumpDims, dumpOut, nDumps, liveStaging, atlasVars,
                 hostVars>>
  /\ UNCHANGED sideVars

\* ----------------------------------------------------------- diagnostic dump
Undefined == NL - 1       \* RAMP[i] for an i outside the string

\* RAMP[i]: the i-th character (named by its position), or undefined.
RampChar(i) == IF i >= 0 /\ i < RampLen THEN i ELSE Undefined

\* Array.prototype.slice(start, end), positions counted from 0.
JsSlice(a, start, end) ==
  LET rel(k) == IF k < 0 THEN Max(Len(a) + k, 0) ELSE Min(k, Len(a))
  IN SubSeq(a, rel(start) + 1, rel(end))

\* Array.prototype.join(''): undefined elements contribute the empty string.
JsJoin(a) == SelectSeq(a, LAMBDA ch : ch # Undefined)

\* dumpASCIIMask's loop, from row r on: each row's slice joined, a newline
\* after every row but the last.
RECURSIVE MaskRows(_, _, _, _)
MaskRows(chars, ncols, nrows, r) ==
  IF r >= nrows THEN <<>>
  ELSE JsJoin(JsSlice(chars, r * ncols, r * ncols + ncols))
         \o (IF r < nrows - 1 THEN <<NL>> ELSE <<>>)
         \o MaskRows(chars, ncols, nrows, r + 1)

\* dumpASCIIMask after `await this.dumpIndexBuffer()`: its cols and rows are
\* read from this.outW and this.outH as they are now; the characters come
\* from RAMP, whatever atlas is in the texture.
ASCIIMask(indices, ncols, nrows) ==
  MaskRows([k \in DOMAIN indices |-> RampChar(indices[k])], ncols, nrows, 0)

\* dumpIndexBuffer up to `await staging.mapAsync(..)`: a staging buffer of
\* outW * outH * 4 bytes, and a submitted copy of that many bytes out of
\* this.indexBuffer (a validation error, and no copy, if it does not fit).
\* createBuffer throwing rejects the dump before there is a staging buffer;
\* mapAsync on a lost device rejects it after, and nothing runs past the await.
dumpCall ==
  /\ RendererPublished
  /\ dumpPc # "awaitMap" /\ mq = <<>>
  /\ MoreEvents
  /\ nDumps' = nDumps + 1
  /\ LET numCells == outW * outH
         byteSize == numCells * 4
     IN IF CreateBufferThrows(byteSize)
        THEN /\ dumpPc' = "rejected"
             /\ UNCHANGED <<dumpStaging, dumpDims, dumpOut, gpuQueue, liveStaging>>
        ELSE IF deviceLost
        THEN /\ dumpPc' = "rejected"
             /\ liveStaging' = liveStaging + 1
             /\ UNCHANGED <<dumpStaging, dumpDims, dumpOut, gpuQueue>>
        ELSE /\ dumpPc' = "awaitMap"
             /\ liveStaging' = liveStaging + 1
             /\ dumpStaging' = [c \in 1 .. numCells |-> 0]
             /\ dumpDims' = [atCall |-> <<outW, outH>>, atReturn |-> <<0, 0>>,
                             atlas |-> atlasTex.atlas]
             /\ dumpOut' = <<>>
             /\ IF ~bufs[indexBuffer].destroyed /\ byteSize <= bufs[indexBuffer].size
                THEN gpuQueue' = Append(gpuQueue,
                          [kind |-> "copy", frame |-> 0, passes |-> <<>>, disp |-> <<0, 0>>,
                           cbuf |-> indexBuffer, rbuf |-> indexBuffer,
                           U |-> uniforms, img |-> [lum |-> 0, edge |-> 0],
                           n |-> numCells])
                ELSE UNCHANGED gpuQueue
  /\ UNCHANGED <<storeVars, settingVars, resourceVars, mq, inTask>>
  /\ UNCHANGED <<frameVars, display, atlasVars, hostVars>>
  /\ UNCHANGED sideVars

\* dumpIndexBuffer's result: `new Uint32Array(mapped.slice(0))`, a copy of the
\* staging buffer's mapped range (not a view of the index buffer bs[idx]).
ReadBackLive(staged, bs, idx) ==
  [c \in DOMAIN staged |-> IF c \in DOMAIN bs[idx].data THEN bs[idx].data[c].v ELSE 0]
ReadBack(staged, bs, idx) == staged

\* mapAsync settles once the queue has executed the copy; dumpIndexBuffer
\* reads the staging contents, unmaps and destroys the staging buffer and
\* returns, and dumpASCIIMask builds the string.
dumpReturn ==
  /\ dumpPc = "awaitMap" /\ mq = <<>>
  /\ \A k \in DOMAIN gpuQueue : gpuQueue[k].kind # "copy"
  /\ dumpOut' = ASCIIMask(ReadBack(dumpStaging, bufs, indexBuffer), outW, outH)
  /\ dumpPc' = "returned"
  /\ dumpDims' = [dumpDims EXCEPT !.atReturn = <<outW, outH>>]
  /\ liveStaging' = liveStaging - 1
  /\ UNCHANGED <<dumpStaging, nDumps>>
  /\ UNCHANGED <<storeVars, settingVars, resourceVars, mq, inTask>>
  /\ UNCHANGED <<frameVars, gpuQueue, display, atlasVars, hostVars>>
  /\ UNCHANGED sideVars

\* ------------------------------------------------------------ specification
\* The host's effect is awaiting ASCIIRenderer.initialize.  The renderer's
\* fields are as initialize builds them, on a grid scaled down from the
\* default 150 x 60: the default contrast 1.1 and edge bias 0.15, the dense
\* atlas, one index buffer, both bind groups on it.  Nobody has the renderer
\* before initialize returns it.
InitRenderer ==
  /\ width = MaxDim /\ height = 1
  /\ storeContrast = Scale + Scale \div 10
  /\ storeEdgeBias = (15 * Scale) \div 100
  /\ storeInvert = 0 /\ nSkipped = 0
  /\ outW = width /\ outH = height
  /\ contrast = storeContrast /\ edgeBias = storeEdgeBias /\ invert = storeInvert
  /\ atlasTex = CreateAtlasTexture("dense", InitBitmapSize)
  /\ cols = LoadAtlasBitmap("dense").cols /\ rows = LoadAtlasBitmap("dense").rows
  /\ uniforms = UniformData(outW, outH, edgeBias, contrast, invert, cols, rows)
  /\ bufs = <<NewBuffer(IndexBufferSize(outW, outH))>>
  /\ indexBuffer = 1
  /\ computeBindGroup = CreateComputeBindGroup(1, bufs)
  /\ renderBindGroup = MakeBindGroup(1, bufs)
  /\ bgCount = 2 /\ nCalls = 0 /\ nDumps = 0
  /\ mq = <<>> /\ inTask = FALSE
  /\ running = FALSE /\ rafPending = 0 /\ framePc = "idle"
  /\ scopeErr = FALSE /\ lastFrame = "none" /\ frameNo = 0 /\ scopeDepth = 0
  /\ gpuQueue = <<>>
  /\ display = [frame |-> 0, fresh |-> TRUE]
  /\ dumpPc = "none" /\ dumpStaging = <<>> /\ dumpDims = [atCall |-> <<0, 0>>, atReturn |-> <<0, 0>>, atlas |-> "dense"]
  /\ dumpOut = <<>> /\ liveStaging = 0
  /\ hostPc = "mounting" /\ hiddenVideo = "loading" /\ initOutcome = "pending"
  /\ cancelled = FALSE /\ deviceLost = FALSE /\ videoResized = FALSE

\* No switchAtlas call has been made: initialize loaded the dense atlas.
InitFetches ==
  /\ atlasFetches = {}
  /\ atlasRequested = [atlas |-> "dense", n |-> 0, overlapped |-> FALSE]

\* this.pending while it is undefined.
NoPending == [id |-> 0, type |-> "none"]

\* A ControlClient as its constructor leaves it: no socket, the tail settled.
InitControl ==
  /\ ws = "none" /\ ops = <<>> /\ pending = NoPending
  /\ timers = <<>> /\ sent = <<>>

\* The ids requests name: two huddles, one participant (or none given).
Hids == {"h1", "h2"}
Pids == {"", "p1"}

\* The SFU process as it starts: no worker, an empty huddles map.
InitSfu ==
  /\ worker = 0 /\ workers = 0
  /\ huddles = [hid \in Hids |-> 0] /\ huddleObjs = <<>>
  /\ sfuIds = 0 /\ sfuReqs = <<>>

Init ==
  /\ InitRenderer /\ shaderIn = NoShaderRun /\ shaderOut = NoShaderRun /\ InitFetches
  /\ InitControl /\ InitSfu

Next ==
  \/ setWidth \/ setHeight \/ setContrast \/ setEdgeBias \/ setInvert
  \/ switchAtlas
  \/ ResumeSetCompute \/ ResumeSetRender \/ ResumeDestroy \/ ResumeReturn \/ ResumeRejected
  \/ mountHiddenVideo \/ initialize \/ run \/ hostResume \/ cleanup \/ deviceLoss
  \/ videoResize
  \/ frameThrows \/ frameSubmit \/ framePop
  \/ gpuExec
  \/ dumpCall \/ dumpReturn

Spec == Init /\ [][Next]_vars

\* ------------------------------------------------ the compute shader alone
\* The compute shader as a function of its inputs, on wider ranges than the
\* frame loop above visits: one cell's luminance and edge magnitude under
\* settings within the sliders' ranges, and the dispatch for grids around the
\* workgroup size.  The renderer does not move.
ShaderLums == {0, Scale \div 4, Scale \div 2, (3 * Scale) \div 4, Scale}
ShaderEdges == {0, (3 * Scale) \div 10, Scale}
ShaderContrasts == {Scale \div 2, Scale, Scale + Scale \div 10, 2 * Scale}
ShaderEdgeBiases == {0, (15 * Scale) \div 100, Scale}
ShaderDims == {1, 2, 4, WorkgroupSize - 1, WorkgroupSize, WorkgroupSize + 1}

CellInputs ==
  [kind : {"cell"}, lum : ShaderLums, edge : ShaderEdges,
   U : {UniformData(1, 1, eb, c, inv, NumCols, CeilDiv(RampLen, NumCols)) :
          eb \in ShaderEdgeBiases, c \in ShaderContrasts, inv \in InvertLevels}]
GridInputs ==
  [kind : {"grid"},
   U : {UniformData(w, h, 0, Scale, 0, NumCols, CeilDiv(RampLen, NumCols)) :
          w \in ShaderDims, h \in ShaderDims}]

ShaderInit ==
  /\ InitRenderer
  /\ shaderIn \in CellInputs \cup GridInputs
  /\ shaderOut = NoShaderRun
  /\ InitFetches /\ InitControl /\ InitSfu

\* main's glyph selection for one cell (compute.wgsl lines 41-62).
shadeCell ==
  /\ shaderIn.kind = "cell" /\ shaderOut = NoShaderRun
  /\ shaderOut' = [kind |-> "cell",
                   index |-> GlyphIndex(shaderIn.lum, shaderIn.edge, shaderIn.U)]
  /\ UNCHANGED <<shaderIn, rendererVars, fetchVars, controlVars, sfuVars>>

\* One frame's dispatch over the grid (doComputePass and main's bounds check).
shadeGrid ==
  /\ shaderIn.kind = "grid" /\ shaderOut = NoShaderRun
  /\ shaderOut' = Dispatch(shaderIn.U, DispatchSizeFor(shaderIn.U.outW, shaderIn.U.outH))
  /\ UNCHANGED <<shaderIn, rendererVars, fetchVars, controlVars, sfuVars>>

ShaderNext == shadeCell \/ shadeGrid

ShaderSpec == ShaderInit /\ [][ShaderNext]_vars

\* ------------------------------------------- overlapping switchAtlas calls
\* The atlas listener of scripts/index.ts calls switchAtlas on every change of
\* the select and nothing makes a call wait for the one before: each call's
\* fetch is in flight on its own, and the fetches complete in any order.  The
\* two assets are of the size initialize loaded, so that no copy throws.

\* WebGPUApp.switchAtlas up to its first await: loadAtlasBitmap starts the
\* fetch of the asset.
switchAtlasCall ==
  \E atlasType \in AtlasTypes :
    /\ RendererPublished
    /\ mq = <<>>
    /\ atlasRequested.n < MaxEvents
    /\ atlasFetches' = atlasFetches \cup {[n |-> atlasRequested.n + 1, atlas |-> atlasType]}
    /\ atlasRequested' = [atlas |-> atlasType, n |-> atlasRequested.n + 1,
                          overlapped |-> atlasRequested.overlapped \/ atlasFetches # {}]
    /\ UNCHANGED <<rendererVars, shaderVars, controlVars, sfuVars>>

\* One of the fetches in flight completes and its call goes on.
switchAtlasLoaded ==
  \E f \in atlasFetches :
    /\ mq = <<>>
    /\ SwitchAtlasResumed(f.atlas, InitBitmapSize)
    /\ atlasFetches' = atlasFetches \ {f}
    /\ UNCHANGED <<atlasRequested, shaderVars, controlVars, sfuVars>>

AtlasNext ==
  \/ mountHiddenVideo \/ initialize \/ run \/ hostResume
  \/ switchAtlasCall \/ switchAtlasLoaded
  \/ ResumeSetCompute \/ ResumeSetRender \/ ResumeDestroy \/ ResumeReturn

AtlasSpec == Init /\ [][AtlasNext]_vars

\* ------------------------------------------------------- the ControlClient
\* The client's request queue on its own: the operations given to enqueue,
\* the single `pending` expectation, the 15 s timers and the socket's events.
\* An operation is identified by its place in the order of the enqueue calls.
RequestTypes == {"createTransport", "relayProducers"}
WaitTypes == {"routerRtpCapabilities"}
MessageTypes == {"transportCreated", "ackRelayProducers", "routerRtpCapabilities"}

\* request's `match` for a payload type, and waitFor's predicate.
Matches(type, msg) ==
  \/ type = "createTransport" /\ msg = "transportCreated"
  \/ type = "relayProducers" /\ msg = "ackRelayProducers"
  \/ type = "routerRtpCapabilities" /\ msg = "routerRtpCapabilities"

SettledStatuses == {"resolved", "rejectedTimeout", "rejectedSocket", "rejectedSend"}
Queued(os) == {j \in DOMAIN os : os[j].status = "queued"}

\* enqueue: `this.tail.then(op)` runs op once the tail has settled, and the
\* tail is `run.then(() => {}, () => {})`: it settles when the operation
\* before has settled, fulfilled or rejected.
TailIgnored(j, os) == TRUE
TailFulfilled(j, os) == \A i \in 1 .. (j - 1) : os[i].status = "resolved"
TailSettled(j, os) == \A i \in 1 .. (j - 1) : os[i].status \in SettledStatuses

\* The operation whose turn it is: the first one not yet run, once its tail
\* has settled.  Its callback is a microtask: the socket's events and the
\* timers are tasks, which wait for it.
OpRunnable ==
  Queued(ops) # {} /\ TailSettled(CHOOSE j \in Queued(ops) : \A i \in Queued(ops) : j <= i, ops)

\* `setTimeout(.., 15000)`: the timer joins the armed ones; they all have the
\* same delay, so they fire in the order they were armed.
ArmTimer(ts, j) == Append(ts, j)
\* clearTimeout(p.timer)
ClearTimer(ts, j) == SelectSeq(ts, LAMBDA x : x # j)

\* p.resolve / p.reject on an operation's promise: the first one settles it,
\* a later one does nothing.
Settle(os, j, how, timer) ==
  IF os[j].status = "running"
  THEN [os EXCEPT ![j].status = how, ![j].by = timer]
  ELSE os

\* openWs: `new WebSocket(wsUrl)` is assigned to this.ws.
openWs ==
  /\ ws = "none" /\ ~OpRunnable
  /\ ws' = "connecting"
  /\ UNCHANGED <<ops, pending, timers, sent>>
  /\ UNCHANGED <<rendererVars, shaderVars, fetchVars, sfuVars>>

\* ws.onopen
wsOpen ==
  /\ ws = "connecting" /\ ~OpRunnable
  /\ ws' = "open"
  /\ UNCHANGED <<ops, pending, timers, sent>>
  /\ UNCHANGED <<rendererVars, shaderVars, fetchVars, sfuVars>>

\* request(payload): it throws unless the socket is open, else the operation
\* is enqueued.
request ==
  \E type \in RequestTypes :
    /\ ws = "open"
    /\ Len(ops) < MaxEvents
    /\ ops' = Append(ops, [kind |-> "request", type |-> type, status |-> "queued", by |-> 0])
    /\ UNCHANGED <<ws, pending, timers, sent>>
    /\ UNCHANGED <<rendererVars, shaderVars, fetchVars, sfuVars>>

\* waitFor(pred): the operation is enqueued, whatever the socket's state.
waitFor ==
  \E type \in WaitTypes :
    /\ Len(ops) < MaxEvents
    /\ ops' = Append(ops, [kind |-> "waitFor", type |-> type, status |-> "queued", by |-> 0])
    /\ UNCHANGED <<ws, pending, timers, sent>>
    /\ UNCHANGED <<rendererVars, shaderVars, fetchVars, sfuVars>>

\* The operation's executor runs: the timer is armed and `pending` installed;
\* a request then sends its payload, and `this.ws!.send` throws when this.ws
\* is undefined or still connecting, which rejects the operation and leaves
\* `pending` and the timer as they are.
runOp ==
  /\ OpRunnable
  /\ LET j == CHOOSE j \in Queued(ops) : \A i \in Queued(ops) : j <= i
     IN /\ timers' = ArmTimer(timers, j)
        /\ pending' = [id |-> j, type |-> ops[j].type]
        /\ IF ops[j].kind = "request" /\ ws # "open"
           THEN /\ ops' = [ops EXCEPT ![j].status = "rejectedSend"]
                /\ UNCHANGED sent
           ELSE /\ ops' = [ops EXCEPT ![j].status = "running"]
                /\ sent' = IF ops[j].kind = "request" THEN Append(sent, j) ELSE sent
  /\ UNCHANGED ws
  /\ UNCHANGED <<rendererVars, shaderVars, fetchVars, sfuVars>>

\* ws.onmessage -> handleIncoming: resolveIfPending settles the expectation
\* the message matches and clears its timer; any other awaited-type message
\* throws `not awaited`, which is reported to onError.
handleIncoming ==
  \E msg \in MessageTypes :
    /\ ws = "open" /\ ~OpRunnable
    /\ IF pending # NoPending /\ Matches(pending.type, msg)
       THEN /\ pending' = NoPending
            /\ timers' = ClearTimer(timers, pending.id)
            /\ ops' = Settle(ops, pending.id, "resolved", 0)
       ELSE UNCHANGED <<ops, pending, timers>>
    /\ UNCHANGED <<ws, sent>>
    /\ UNCHANGED <<rendererVars, shaderVars, fetchVars, sfuVars>>

\* The oldest armed timer fires: it rejects whatever `this.pending` holds.
timerFires ==
  /\ timers # <<>> /\ ~OpRunnable
  /\ timers' = Tail(timers)
  /\ IF pending # NoPending
     THEN /\ pending' = NoPending
          /\ ops' = Settle(ops, pending.id, "rejectedTimeout", Head(timers))
     ELSE UNCHANGED <<ops, pending>>
  /\ UNCHANGED <<ws, sent>>
  /\ UNCHANGED <<rendererVars, shaderVars, fetchVars, sfuVars>>

\* ws.onerror: the in-flight expectation is rejected; its timer stays armed.
wsError ==
  /\ ws # "none" /\ ~OpRunnable
  /\ pending' = NoPending
  /\ ops' = IF pending # NoPending THEN Settle(ops, pending.id, "rejectedSocket", 0) ELSE ops
  /\ UNCHANGED <<ws, timers, sent>>
  /\ UNCHANGED <<rendererVars, shaderVars, fetchVars, sfuVars>>

\* ws.onclose: the same, and this.ws becomes undefined.
wsClose ==
  /\ ws # "none" /\ ~OpRunnable
  /\ pending' = NoPending
  /\ ops' = IF pending # NoPending THEN Settle(ops, pending.id, "rejectedSocket", 0) ELSE ops
  /\ ws' = "none"
  /\ UNCHANGED <<timers, sent>>
  /\ UNCHANGED <<rendererVars, shaderVars, fetchVars, sfuVars>>

ControlNext ==
  \/ openWs \/ wsOpen \/ request \/ waitFor \/ runOp
  \/ handleIncoming \/ timerFires \/ wsError \/ wsClose

ControlSpec == Init /\ [][ControlNext]_vars

\* The callback of a settled tail is a microtask, which the event loop runs;
\* an armed timer fires when its 15 s have passed.
ControlFairSpec == ControlSpec /\ WF_vars(runOp) /\ WF_vars(timerFires)

\* ------------------------------------------------------------------ the SFU
\* The media server's in-memory state under concurrent HTTP requests.  A
\* handler runs up to its next await of mediasoup (createWorker,
\* createRouter, createWebRtcTransport, produce, consume); those complete in
\* any order, and other handlers run meanwhile.
NoParticipant == [present |-> FALSE, transports |-> {}, producers |-> {}, consumers |-> {}]
NewParticipant == [present |-> TRUE, transports |-> {}, producers |-> {}, consumers |-> {}]

\* An answered request.
Answered(status) ==
  [route |-> "none", hid |-> "", pid |-> "", tid |-> 0, prod |-> 0, pc |-> "done",
   obj |-> 0, status |-> status]
\* A handler suspended at an await.
Awaiting(route, hid, pid, tid, prod, pc, obj) ==
  [route |-> route, hid |-> hid, pid |-> pid, tid |-> tid, prod |-> prod, pc |-> pc,
   obj |-> obj, status |-> 0]

\* The ids a request may name for a transport or a producer.
SfuIdRange == 1 .. MaxEvents

\* getParticipant(h, participantId): the entry is created when it is missing.
GetParticipant(objs, h, pid) ==
  IF objs[h].participants[pid].present THEN objs
  ELSE [objs EXCEPT ![h].participants[pid] = NewParticipant]

\* getWorker up to its await: the worker there is, or createWorker is called.
GetWorkerPc(w) == IF w # 0 THEN "createRouter" ELSE "createWorker"

\* router.canConsume: the producer is one of this router's.
CanConsume(objs, h, prod) ==
  \E pid \in Pids : prod \in objs[h].participants[pid].producers

\* POST /huddles/:hid/ensure: ensureHuddle finds the entry and the handler
\* answers, or getWorker and createRouter are awaited first.
postEnsure ==
  \E hid \in Hids :
    /\ Len(sfuReqs) < MaxEvents
    /\ sfuReqs' = Append(sfuReqs,
          IF huddles[hid] # 0 THEN Answered(200)
          ELSE Awaiting("ensure", hid, "", 0, 0, GetWorkerPc(worker), 0))
    /\ UNCHANGED <<worker, workers, huddles, huddleObjs, sfuIds>>
    /\ UNCHANGED <<rendererVars, shaderVars, fetchVars, controlVars>>

\* POST /huddles/:hid/transports
postTransports ==
  \E hid \in Hids, pid \in Pids :
    /\ Len(sfuReqs) < MaxEvents
    /\ IF pid = ""
       THEN /\ sfuReqs' = Append(sfuReqs, Answered(400))
            /\ UNCHANGED huddleObjs
       ELSE IF huddles[hid] # 0
       THEN /\ huddleObjs' = GetParticipant(huddleObjs, huddles[hid], pid)
            /\ sfuReqs' = Append(sfuReqs,
                  Awaiting("transports", hid, pid, 0, 0, "createTransport", huddles[hid]))
       ELSE /\ sfuReqs' = Append(sfuReqs,
                  Awaiting("transports", hid, pid, 0, 0, GetWorkerPc(worker), 0))
            /\ UNCHANGED huddleObjs
    /\ UNCHANGED <<worker, workers, huddles, sfuIds>>
    /\ UNCHANGED <<rendererVars, shaderVars, fetchVars, controlVars>>

\* getWorker: `worker = await createWorker()` resumes; ensureHuddle goes on
\* to await w.createRouter.
workerCreated ==
  \E r \in DOMAIN sfuReqs :
    /\ sfuReqs[r].pc = "createWorker"
    /\ workers' = workers + 1
    /\ worker' = workers + 1
    /\ sfuReqs' = [sfuReqs EXCEPT ![r].pc = "createRouter"]
    /\ UNCHANGED <<huddles, huddleObjs, sfuIds>>
    /\ UNCHANGED <<rendererVars, shaderVars, fetchVars, controlVars>>

\* ensureHuddle: `await w.createRouter(..)` resumes; the new Huddle is put in
\* the map and returned to the handler, which answers (ensure) or goes on
\* (transports).
routerCreated ==
  \E r \in DOMAIN sfuReqs :
    /\ sfuReqs[r].pc = "createRouter"
    /\ LET h == Len(huddleObjs) + 1
           objs == Append(huddleObjs,
                     [hid |-> sfuReqs[r].hid, participants |-> [pid \in Pids |-> NoParticipant]])
       IN /\ huddles' = [huddles EXCEPT ![sfuReqs[r].hid] = h]
          /\ IF sfuReqs[r].route = "ensure"
             THEN /\ huddleObjs' = objs
                  /\ sfuReqs' = [sfuReqs EXCEPT ![r] = Answered(200)]
             ELSE /\ huddleObjs' = GetParticipant(objs, h, sfuReqs[r].pid)
                  /\ sfuReqs' = [sfuReqs EXCEPT ![r] =
                        Awaiting("transports", sfuReqs[r].hid, sfuReqs[r].pid, 0, 0,
                                 "createTransport", h)]
    /\ UNCHANGED <<worker, workers, sfuIds>>
    /\ UNCHANGED <<rendererVars, shaderVars, fetchVars, controlVars>>

\* transports: `await h.router.createWebRtcTransport(..)` resumes; the
\* transport is put in the participant's map and the handler answers.
transportCreated ==
  \E r \in DOMAIN sfuReqs :
    /\ sfuReqs[r].pc = "createTransport"
    /\ sfuIds' = sfuIds + 1
    /\ huddleObjs' = [huddleObjs EXCEPT ![sfuReqs[r].obj].participants[sfuReqs[r].pid].transports
                                          = @ \cup {sfuIds + 1}]
    /\ sfuReqs' = [sfuReqs EXCEPT ![r] = Answered(200)]
    /\ UNCHANGED <<worker, workers, huddles>>
    /\ UNCHANGED <<rendererVars, shaderVars, fetchVars, controlVars>>

\* POST /huddles/:hid/produce up to `await transport.produce(..)`.
postProduce ==
  \E hid \in Hids, pid \in Pids, tid \in SfuIdRange :
    /\ Len(sfuReqs) < MaxEvents
    /\ IF pid = ""
       THEN /\ sfuReqs' = Append(sfuReqs, Answered(400))
            /\ UNCHANGED huddleObjs
       ELSE IF huddles[hid] = 0
       THEN /\ sfuReqs' = Append(sfuReqs, Answered(404))
            /\ UNCHANGED huddleObjs
       ELSE /\ huddleObjs' = GetParticipant(huddleObjs, huddles[hid], pid)
            /\ sfuReqs' = Append(sfuReqs,
                  IF tid \notin huddleObjs'[huddles[hid]].participants[pid].transports
                  THEN Answered(404)
                  ELSE Awaiting("produce", hid, pid, tid, 0, "produce", huddles[hid]))
    /\ UNCHANGED <<worker, workers, huddles, sfuIds>>
    /\ UNCHANGED <<rendererVars, shaderVars, fetchVars, controlVars>>

\* produce: `await transport.produce(..)` resumes.
produced ==
  \E r \in DOMAIN sfuReqs :
    /\ sfuReqs[r].pc = "produce"
    /\ sfuIds' = sfuIds + 1
    /\ huddleObjs' = [huddleObjs EXCEPT ![sfuReqs[r].obj].participants[sfuReqs[r].pid].producers
                                          = @ \cup {sfuIds + 1}]
    /\ sfuReqs' = [sfuReqs EXCEPT ![r] = Answered(200)]
    /\ UNCHANGED <<worker, workers, huddles>>
    /\ UNCHANGED <<rendererVars, shaderVars, fetchVars, controlVars>>

\* POST /huddles/:hid/consume up to `await transport.consume(..)`.
postConsume ==
  \E hid \in Hids, pid \in Pids, tid \in SfuIdRange, prod \in SfuIdRange :
    /\ Len(sfuReqs) < MaxEvents
    /\ IF huddles[hid] = 0
       THEN /\ sfuReqs' = Append(sfuReqs, Answered(404))
            /\ UNCHANGED huddleObjs
       ELSE /\ huddleObjs' = GetParticipant(huddleObjs, huddles[hid], pid)
            /\ sfuReqs' = Append(sfuReqs,
                  IF tid \notin huddleObjs'[huddles[hid]].participants[pid].transports
                  THEN Answered(404)
                  ELSE IF ~CanConsume(huddleObjs', huddles[hid], prod)
                  THEN Answered(400)
                  ELSE Awaiting("consume", hid, pid, tid, prod, "consume", huddles[hid]))
    /\ UNCHANGED <<worker, workers, huddles, sfuIds>>
    /\ UNCHANGED <<rendererVars, shaderVars, fetchVars, controlVars>>

\* consume: `await transport.consume(..)` resumes.
consumed ==
  \E r \in DOMAIN sfuReqs :
    /\ sfuReqs[r].pc = "consume"
    /\ sfuIds' = sfuIds + 1
    /\ huddleObjs' = [huddleObjs EXCEPT ![sfuReqs[r].obj].participants[sfuReqs[r].pid].consumers
                                          = @ \cup {sfuIds + 1}]
    /\ sfuReqs' = [sfuReqs EXCEPT ![r] = Answered(200)]
    /\ UNCHANGED <<worker, workers, huddles>>
    /\ UNCHANGED <<rendererVars, shaderVars, fetchVars, controlVars>>

SfuNext ==
  \/ postEnsure \/ postTransports \/ postProduce \/ postConsume
  \/ workerCreated \/ routerCreated \/ transportCreated \/ produced \/ consumed

SfuSpec == Init /\ [][SfuNext]_vars

\* The event loop runs every queued microtask and every scheduled
\* requestAnimationFrame callback, popErrorScope's promise settles, and the
\* GPU executes what is queued: none of these is postponed for ever.
FairSpec ==
  /\ Spec
  /\ WF_vars(ResumeSetCompute \/ ResumeSetRender \/ ResumeDestroy \/ ResumeReturn
               \/ ResumeRejected \/ hostResume)
  /\ WF_vars(frameThrows \/ frameSubmit \/ framePop)
  /\ WF_vars(gpuExec)

\* ------------------------------------------------------------------ claims
BufIds == DOMAIN bufs
Live == {b \in BufIds : ~bufs[b].destroyed}
ValidDims(d) == d[1] > 0 /\ d[2] > 0
\* Every started updateUniforms call has run its `old.destroy()` or failed.
Quiescent == \A k \in DOMAIN mq : mq[k].pc \in {"return", "rejected"}

\* C1: no work the GPU has still to execute (a frame's passes, a dump's copy)
\* references a buffer that has been destroyed; since a submission that names
\* a destroyed buffer is refused, this says no buffer is destroyed while
\* submitted work on it is unfinished.
C1_NoInflightUseOfDestroyed ==
  \A k \in DOMAIN gpuQueue :
    ~bufs[gpuQueue[k].cbuf].destroyed /\ ~bufs[gpuQueue[k].rbuf].destroyed

\* C2: a destroyed index buffer is referenced by neither active bind group,
\* and both active bind groups are on a buffer allocated after it: the swap
\* of both bind groups precedes every destroy.
C2_SwapBeforeDestroy ==
  \A b \in BufIds :
    bufs[b].destroyed => computeBindGroup.buf > b /\ renderBindGroup.buf > b

C2_Witness ==
  /\ \E b \in BufIds : bufs[b].destroyed
  /\ computeBindGroup.buf = indexBuffer /\ renderBindGroup.buf = indexBuffer
  /\ ValidDims(<<outW, outH>>)

\* C3: once updateUniforms has completed (no call is still short of its
\* destroy), exactly one index buffer is undestroyed, it is this.indexBuffer,
\* both bind groups reference it, and for a valid grid it has the new size, so
\* the next dump's copy of outW * outH * 4 bytes reads a buffer of that size.
C3_OneLiveBufferAfterResize ==
  Quiescent =>
    /\ Live = {indexBuffer}
    /\ computeBindGroup.buf = indexBuffer /\ renderBindGroup.buf = indexBuffer
    /\ ValidDims(<<outW, outH>>) => bufs[indexBuffer].size = outW * outH * 4

C3_Witness ==
  /\ mq = <<>> /\ nCalls > 0
  /\ bufs[1].destroyed
  /\ ValidDims(<<outW, outH>>) /\ outW * outH # MaxDim

\* C4: for valid grid dimensions this.indexBuffer always has
\* outW * outH * 4 bytes, and whenever a frame can be encoded (no microtask
\* pending) so has the buffer bound in each bind group.
C4_ActiveBufferSize ==
  ValidDims(<<outW, outH>>) =>
    /\ bufs[indexBuffer].size = outW * outH * 4
    /\ mq = <<>> => /\ bufs[computeBindGroup.buf].size = outW * outH * 4
                    /\ bufs[renderBindGroup.buf].size = outW * outH * 4

C4_Witness ==
  /\ mq = <<>> /\ nCalls = 2 /\ indexBuffer = 3
  /\ ValidDims(<<outW, outH>>) /\ outW * outH = MaxDim * MaxDim

\* C5: every glyph index held by an index buffer is a position of the ramp,
\* 0 <= i < RAMP.length.
C5_IndexInRamp ==
  \A b \in BufIds : \A c \in DOMAIN bufs[b].data :
    bufs[b].data[c].v >= 0 /\ bufs[b].data[c].v < uniforms.rampLen

\* The lines of a string, split at its newlines.
RECURSIVE Lines(_)
Lines(str) ==
  IF \A k \in DOMAIN str : str[k] # NL THEN <<str>>
  ELSE LET k == CHOOSE j \in DOMAIN str :
                  str[j] = NL /\ \A m \in 1 .. (j - 1) : str[m] # NL
       IN <<SubSeq(str, 1, k - 1)>> \o Lines(SubSeq(str, k + 1, Len(str)))

HasShape(str, d) ==
  /\ Len(Lines(str)) = d[2]
  /\ \A r \in DOMAIN Lines(str) : Len(Lines(str)[r]) = d[1]

\* C6: a dump that returns, called and returning on a valid grid, is
\* grid_height rows of grid_width characters -- for the grid as it was at the
\* call or as it is at the return.
C6_DumpShape ==
  (dumpPc = "returned" /\ ValidDims(dumpDims.atCall) /\ ValidDims(dumpDims.atReturn))
    => HasShape(dumpOut, dumpDims.atCall) \/ HasShape(dumpOut, dumpDims.atReturn)

\* C7: an updateUniforms call that leaves width and height as they were
\* rewrites the Parameter Block only: it creates no index buffer and no bind
\* group.
C7_NoRebuildWithoutResize ==
  [][(nCalls' = nCalls + 1 /\ width' = width /\ height' = height)
       => (Len(bufs') = Len(bufs) /\ bgCount' = bgCount)]_vars

\* C8: an updateUniforms call for a zero or negative width or height changes
\* neither the Parameter Block, nor the index buffer, nor a bind group, nor
\* the dimensions the next dispatch uses, and allocates nothing.
C8_InvalidDimsRejected ==
  [][(nCalls' = nCalls + 1 /\ (width' <= 0 \/ height' <= 0))
       => (/\ UNCHANGED <<uniforms, indexBuffer, computeBindGroup, renderBindGroup>>
           /\ UNCHANGED <<outW, outH>>
           /\ Len(bufs') = Len(bufs))]_vars

\* C9: once run() has started the loop, exactly one iteration is either
\* scheduled or in progress, whether the last one succeeded, threw, or had a
\* validation error captured; before run() none is.
C9_LoopContinues ==
  rafPending + (IF framePc = "awaitPop" THEN 1 ELSE 0) = (IF running THEN 1 ELSE 0)

C9_Witness == lastFrame = "validation" /\ rafPending = 1 /\ framePc = "idle"

C11_OneBufferOneWriter ==
  [][/\ (framePc = "idle" /\ framePc' = "awaitPop") =>
          (computeBindGroup.buf = indexBuffer /\ renderBindGroup.buf = indexBuffer)
     /\ \A b \in DOMAIN bufs :
          bufs'[b].data # bufs[b].data =>
            /\ gpuQueue # <<>> /\ gpuQueue' = Tail(gpuQueue)
            /\ Head(gpuQueue).kind = "frame" /\ Head(gpuQueue).cbuf = b]_vars

C11_Witness ==
  /\ indexBuffer > 1 /\ lastFrame = "ok"
  /\ \E c \in DOMAIN bufs[indexBuffer].data : bufs[indexBuffer].data[c].f > 0
  /\ display.frame = bufs[indexBuffer].data[1].f

\* C12: the published geometry fits the ramp of the atlas that is in the
\* texture: columns is the atlas's column count, rows is the least number of
\* rows of that many tiles that holds the whole ramp (rows = ceil(len / cols)),
\* and the Parameter Block holds those columns and rows.
C12_RowsFitRamp ==
  /\ cols = NumCols
  /\ (rows - 1) * cols < RampLength(atlasTex.atlas)
  /\ RampLength(atlasTex.atlas) <= rows * cols
  /\ uniforms.cols = cols /\ uniforms.rows = rows

C12_Witness ==
  /\ atlasTex.atlas = "blocks" /\ mq = <<>> /\ nCalls = 1
  /\ rows # LoadAtlasBitmap("dense").rows

\* The character at position i of the ramp of an atlas: the dense ramp's
\* characters are named by their positions; the blocks ramp starts with the
\* same space and continues with characters the dense ramp does not have.
RampCharOf(atlasType, i) ==
  IF atlasType # "blocks" THEN RampChar(i)
  ELSE IF i = 0 THEN 0
  ELSE IF i > 0 /\ i < RampBlocksLen THEN RampLen + i
  ELSE Undefined

\* C13: a dump called with an atlas in the texture (its switch completed) and
\* returning with the same atlas and grid is built from that atlas's ramp:
\* each index read back is rendered as that ramp's character.
C13_DumpUsesActiveRamp ==
  (dumpPc = "returned" /\ dumpDims.atlas = atlasTex.atlas
     /\ dumpDims.atCall = dumpDims.atReturn /\ ValidDims(dumpDims.atCall))
    => dumpOut = MaskRows([k \in DOMAIN dumpStaging |->
                            RampCharOf(atlasTex.atlas, dumpStaging[k])],
                          dumpDims.atCall[1], dumpDims.atCall[2], 0)

\* An updateUniforms call that no setter made: switchAtlas's.
SwitchAtlasStep == nCalls' = nCalls + 1 /\ UNCHANGED storeVars

\* C14: a switchAtlas (the grid is as it was) rewrites the Parameter Block
\* and leaves the index buffer alone: none is allocated, none is scheduled for
\* destruction, this.indexBuffer stays, no bind group is created.
C14_AtlasSwapKeepsIndexBuffer ==
  [][SwitchAtlasStep =>
       /\ Len(bufs') = Len(bufs) /\ indexBuffer' = indexBuffer
       /\ bgCount' = bgCount /\ mq' = mq]_vars

\* C15: the atlas texture has the size of the bitmap it holds: a bitmap of
\* another size is never copied into the existing texture (a texture of the
\* bitmap's size replaces it).
C15_AtlasTextureFitsBitmap == atlasTex.size = atlasTex.bitmapSize

\* C16: once the device is lost, no frame is encoded and submitted any more.
C16_NoFrameAfterDeviceLoss ==
  [][deviceLost => ~(framePc = "idle" /\ framePc' = "awaitPop")]_vars

\* C17: when initialize has failed, the host has no renderer and nothing
\* runs: the effect is in its catch, run() was not called, no frame is
\* scheduled or in progress, nothing was submitted, no method was called.
C17_FailedInitRunsNothing ==
  initOutcome \notin {"pending", "ok"} =>
    /\ hostPc = "failed"
    /\ ~running /\ rafPending = 0 /\ framePc = "idle"
    /\ frameNo = 0 /\ gpuQueue = <<>> /\ nCalls = 0 /\ nDumps = 0

C17_Witness == initOutcome = "compileError" /\ hostPc = "failed" /\ cancelled

\* C18: while frames are being scheduled (run() has started the loop), the
\* caller awaiting run() has not resumed.
C18_RunDoesNotReturn == running => hostPc = "awaitRun"

\* C19: once the cleanup has run, eventually no iteration is scheduled or in
\* progress, and it stays so.
C19_CancelStopsLoop == cancelled ~> [](rafPending = 0 /\ framePc = "idle")

\* C20: a frame callback that reports a size mismatch submits nothing: the
\* queue, the buffers, the surface and the count of submitted frames are as
\* before it.
C20_MismatchSubmitsNothing ==
  [][(lastFrame' = "threw" /\ lastFrame # "threw")
       => UNCHANGED <<gpuQueue, bufs, display, frameNo, framePc>>]_vars

C20_Witness == lastFrame = "threw" /\ frameNo > 0 /\ rafPending = 1

\* C21: once the video's native size has changed while the loop runs, a frame
\* is eventually encoded and submitted again (the camera texture having been
\* reallocated to the new size).
C21_ResizedVideoResumes == (videoResized /\ running) ~> (framePc = "awaitPop")

\* C22: the renderer's settings, the Parameter Block and the index buffer
\* change only in a step that calls updateUniforms -- a change of the store
\* alone changes none of them; and what a frame or a dump then uses (the
\* dispatch size, the dump's dimensions) is what the last call wrote into the
\* Parameter Block.
C22_SettingsOnlyByUpdate ==
  [][/\ (<<outW, outH, contrast, edgeBias, invert, uniforms, indexBuffer>>'
           # <<outW, outH, contrast, edgeBias, invert, uniforms, indexBuffer>>
         \/ Len(bufs') # Len(bufs)) => nCalls' = nCalls + 1
     /\ (frameNo' = frameNo + 1) =>
          gpuQueue'[Len(gpuQueue')].disp
            = <<WorkgroupCount(uniforms.outW), WorkgroupCount(uniforms.outH)>>
     /\ (nDumps' = nDumps + 1 /\ dumpPc' = "awaitMap") =>
          dumpDims'.atCall = <<uniforms.outW, uniforms.outH>>]_vars

C22_Witness ==
  /\ StoreAhead /\ RendererPublished /\ width # outW
  /\ display.frame > 0

\* A step in which a frame callback encodes its passes.
FrameEncoded == framePc = "idle" /\ framePc' = "awaitPop"

\* C23: whenever a frame is encoded, the Parameter Block holds the renderer's
\* current settings and atlas geometry, its grid dimensions are those the
\* dispatch is sized with, and the index buffer bound for the compute pass
\* has the size of that grid.
C23_ParameterBlockCurrent ==
  [][FrameEncoded =>
       /\ uniforms = UniformData(outW, outH, edgeBias, contrast, invert, cols, rows)
       /\ DispatchSize = <<WorkgroupCount(uniforms.outW), WorkgroupCount(uniforms.outH)>>
       /\ bufs[computeBindGroup.buf].size = IndexBufferSize(uniforms.outW, uniforms.outH)]_vars

\* C24: a dump is read through its staging buffer and is a copy: the string
\* returned is built from what the copy staged, it does not change while
\* later frames rewrite the index buffer, and neither the call nor the return
\* of a dump changes the index buffer, the bind groups, the Parameter Block or
\* the settings.
C24_DumpIsDetachedCopy ==
  [][/\ (dumpPc = "awaitMap" /\ dumpPc' = "returned") =>
          dumpOut' = ASCIIMask(dumpStaging, outW, outH)
     /\ (dumpPc = "returned" /\ dumpPc' = "returned") =>
          UNCHANGED <<dumpOut, dumpStaging>>
     /\ (nDumps' # nDumps \/ dumpPc' # dumpPc) =>
          UNCHANGED <<bufs, indexBuffer, computeBindGroup, renderBindGroup, uniforms,
                      settingVars>>]_vars

C24_Witness ==
  /\ dumpPc = "returned" /\ dumpStaging # <<>>
  /\ \E c \in DOMAIN dumpStaging \cap DOMAIN bufs[indexBuffer].data :
       bufs[indexBuffer].data[c].v # dumpStaging[c]

\* The index the formula clamp(round(lum * (n-1) + edge * edge_bias * (n-1)),
\* 0, n-1) gives, n being the ramp length of the Parameter Block and lum the
\* adjusted luminance; round is to the nearest integer, halves upwards.
ClaimedIndex(lum, edge, U) ==
  LET one == Scale * Scale
      top == U.rampLen - 1
      x == AdjustedLum(lum, U) * top + edge * U.edgeBias * top
  IN Clamp((x + one \div 2) \div one, 0, top)

\* C25: the glyph index the shader writes for a cell is
\* clamp(round(lum * (ramp_length-1) + edge * edge_bias * (ramp_length-1)),
\* 0, ramp_length-1); for a mid-gray cell without edge at contrast 1.0 that is
\* round(0.5 * (ramp_length-1)).
C25_GlyphIndexFormula ==
  shaderOut.kind = "cell" =>
    shaderOut.index = ClaimedIndex(shaderIn.lum, shaderIn.edge, shaderIn.U)

\* A cell of a pure-white source (no edge) shaded with invert set.
InvertedWhite ==
  /\ shaderOut.kind = "cell"
  /\ shaderIn.lum = Scale /\ shaderIn.edge = 0 /\ shaderIn.U.invert = 1

\* C26: with invert set a cell of a pure-white source gets glyph index 0,
\* whatever the contrast (0.5 .. 2.0) and the edge bias (0.0 .. 1.0).
C26_InvertedWhiteIsZero == InvertedWhite => shaderOut.index = 0

\* C26, amended: with invert set a cell of a pure-white source gets glyph
\* index 0 for every contrast of at least 1.0 (up to 2.0) and every edge bias;
\* a contrast below 1.0 pulls white towards mid-gray before the inversion.
C26_InvertedWhiteIsZeroFromUnitContrast ==
  (InvertedWhite /\ shaderIn.U.contrast >= Scale) => shaderOut.index = 0

C26_Witness ==
  /\ InvertedWhite /\ shaderIn.U.contrast = 2 * Scale /\ shaderIn.U.edgeBias = Scale
  /\ shaderOut.index = 0

\* C27: one dispatch of ceil(w/16) x ceil(h/16) workgroups writes every
\* position 0 .. w*h-1 of the index buffer exactly once and no other position
\* (none outside the buffer of w*h cells), and the invocations outside the
\* grid take no texture sample.
C27_DispatchCoversGridOnce ==
  shaderOut.kind = "grid" =>
    LET w == shaderIn.U.outW
        h == shaderIn.U.outH
    IN /\ DOMAIN shaderOut.count = 0 .. (w * h - 1)
       /\ \A pos \in DOMAIN shaderOut.count :
            shaderOut.count[pos] = 1 /\ pos < IndexBufferSize(w, h) \div 4
       /\ shaderOut.idleSamples \subseteq {0}

C27_Witness ==
  /\ shaderOut.kind = "grid"
  /\ shaderIn.U.outW = WorkgroupSize + 1 /\ shaderIn.U.outH = WorkgroupSize - 1
  /\ shaderOut.idleSamples = {0}
  /\ shaderOut.count[(WorkgroupSize + 1) * (WorkgroupSize - 1) - 1] = 1

\* A step in which the GPU executes a frame's passes.
FrameExecuted ==
  gpuQueue # <<>> /\ Head(gpuQueue).kind = "frame" /\ gpuQueue' = Tail(gpuQueue)

\* C28: when a frame's render pass runs, the cells it reads (cx < grid_width,
\* cy < grid_height) are inside the bound index buffer, and each glyph index
\* it finds there, as the frame's compute pass wrote it, names a tile inside
\* the atlas's columns x rows grid: i / columns < rows.
C28_RenderReadsInsideBufferAndAtlas ==
  [][FrameExecuted =>
       LET e == Head(gpuQueue)
           data == bufs'[e.rbuf].data
       IN /\ GridCells(e.U) <= Len(data)
          /\ \A c \in 1 .. GridCells(e.U) : data[c].v \div e.U.cols < e.U.rows]_vars

\* C29: a frame is encoded and submitted in one step, with no other frame
\* scheduled or in progress and no reconfiguration half-way: no updateUniforms
\* continuation is pending, both bind groups are on one buffer, and that
\* buffer has the size of the Parameter Block's grid.
C29_FrameSeesWholeConfiguration ==
  [][FrameEncoded =>
       /\ mq = <<>> /\ rafPending' = 0
       /\ computeBindGroup.buf = renderBindGroup.buf
       /\ bufs[renderBindGroup.buf].size = IndexBufferSize(uniforms.outW, uniforms.outH)]_vars

\* C30: when two or more updateUniforms calls were in progress together and
\* all of them have settled (each is past its destroy, or was rejected), both
\* bind groups are on this.indexBuffer, that buffer has the size of the
\* current grid, every other index buffer has been destroyed exactly once,
\* and this.indexBuffer has not been destroyed.
C30_OverlappingCallsSettle ==
  (Quiescent /\ Len(mq) >= 2) =>
    /\ computeBindGroup.buf = indexBuffer /\ renderBindGroup.buf = indexBuffer
    /\ bufs[indexBuffer].size = IndexBufferSize(outW, outH)
    /\ bufs[indexBuffer].destroys = 0
    /\ \A b \in BufIds \ {indexBuffer} : bufs[b].destroys = 1

\* C31: when switchAtlas calls have overlapped, then once every call has
\* settled the texture holds the atlas of the most recent call and cols and
\* rows are that atlas's, whatever order the fetches completed in.
AtlasSettled == atlasFetches = {} /\ mq = <<>>
C31_LastRequestedAtlasWins ==
  (atlasRequested.overlapped /\ AtlasSettled) =>
    /\ atlasTex.atlas = atlasRequested.atlas
    /\ cols = LoadAtlasBitmap(atlasRequested.atlas).cols
    /\ rows = LoadAtlasBitmap(atlasRequested.atlas).rows

\* C32: withValidation leaves the device's error-scope stack as it found it:
\* whenever no frame's withValidation call is in progress, whether the frames
\* so far succeeded, failed validation or threw, no error scope pushed by a
\* frame is still on the stack.
C32_ErrorScopesBalanced == framePc = "idle" => scopeDepth = 0

\* C33: whenever no dump is awaiting its mapAsync (every dump so far has
\* settled, by returning or by rejecting), no staging buffer created by a
\* dump is left undestroyed.
C33_NoStagingBufferLeft == dumpPc # "awaitMap" => liveStaging = 0

\* C39: once the renderer is attached to the store, then whenever no
\* updateUniforms call is in progress the renderer's outW, outH, contrast,
\* edgeBias and invert are the store's width, height, contrast, edgeBias and
\* invert, also when a setter ran before the renderer was attached (the
\* effect that attaches it not having been cleaned up).
C39_RendererFollowsStore ==
  (RendererPublished /\ ~cancelled /\ mq = <<>>) => ~StoreAhead

\* C40: when the effect's cleanup has run before its setup has finished, the
\* step that finishes the setup leaves the hidden video disposed, the
\* renderer unpublished and the frame loop not started.
SetupPending == hostPc \in {"mounting", "initializing"}
C40_CancelledSetupLeavesNothing ==
  [][(cancelled /\ SetupPending /\ ~SetupPending')
       => (hiddenVideo' = "disposed" /\ ~RendererPublished' /\ ~running')]_vars

\* C34: the ControlClient has at most one operation running (started and not
\* settled), and it is the one `pending` belongs to; an operation still
\* queued is neither installed as `pending` nor sent, and an operation has
\* started only if every operation enqueued before it has settled; the
\* payloads sent on the socket are in the order of the request calls.
Running(os) == {j \in DOMAIN os : os[j].status = "running"}
C34_OnePendingInOrder ==
  /\ Cardinality(Running(ops)) <= 1
  /\ \A j \in DOMAIN ops :
       /\ ops[j].status = "running" => pending.id = j
       /\ ops[j].status = "queued" =>
            (pending.id # j /\ \A n \in DOMAIN sent : sent[n] # j)
       /\ ops[j].status # "queued" =>
            \A i \in 1 .. (j - 1) : ops[i].status \in SettledStatuses
  /\ \A a \in DOMAIN sent, b \in DOMAIN sent : a < b => sent[a] < sent[b]
\* A request is awaiting its response and a second request, made meanwhile,
\* waits behind it unsent.
C34_Witness ==
  /\ Len(ops) >= 2 /\ ops[1].status = "running" /\ pending.id = 1
  /\ ops[2].kind = "request" /\ ops[2].status = "queued"
  /\ sent = <<1>>

\* C35: an operation rejected with a timeout was rejected by the timer armed
\* for that same operation.
C35_TimeoutByOwnTimer ==
  \A j \in DOMAIN ops : ops[j].status = "rejectedTimeout" => ops[j].by = j

\* C36: every operation given to enqueue eventually settles, and operations
\* start in the order they were enqueued whatever the outcome of the ones
\* before: none is started while an earlier one is still queued.
C36_EveryOperationSettles ==
  /\ \A j \in 1 .. MaxEvents :
       (j \in DOMAIN ops) ~> (j \in DOMAIN ops /\ ops[j].status \in SettledStatuses)
  /\ [](\A j \in DOMAIN ops :
          ops[j].status # "queued" => \A i \in 1 .. (j - 1) : ops[i].status # "queued")
\* The first operation was rejected and the one enqueued behind it has run
\* and been resolved.
C36_Witness ==
  /\ Len(ops) >= 2
  /\ ops[1].status \in {"rejectedTimeout", "rejectedSocket", "rejectedSend"}
  /\ ops[2].status = "resolved"

\* C37: under any interleaving of requests at most one mediasoup worker has
\* been created, at most one Huddle (router) has been created for each huddle
\* id, and every Huddle created is the entry of its id in the huddles map.
C37_OneWorkerOneRouterPerHuddle ==
  /\ workers <= 1
  /\ \A a \in DOMAIN huddleObjs, b \in DOMAIN huddleObjs :
       huddleObjs[a].hid = huddleObjs[b].hid => a = b
  /\ \A a \in DOMAIN huddleObjs : huddles[huddleObjs[a].hid] = a

\* C38: the step in which a request is answered with 400 or 404 leaves the
\* worker, the huddles map, every Huddle with its participants, and the
\* transports, producers and consumers as they were.
RejectedNow(r) ==
  /\ sfuReqs'[r].status \in {400, 404}
  /\ r \in DOMAIN sfuReqs => sfuReqs[r].status = 0
C38_RejectedRequestChangesNothing ==
  [][(\E r \in DOMAIN sfuReqs' : RejectedNow(r))
       => UNCHANGED <<worker, workers, huddles, huddleObjs, sfuIds>>]_vars

====
